---- MODULE Spec2Model ----
(***************************************************************************)
(* Model of src/wsn.py: the WSN container, its node list and its           *)
(* power-coefficient matrix under __init__, build_power_matrix,            *)
(* add_sensor and remove_sensor.                                           *)
(*                                                                         *)
(* A numpy array is a record [nr, nc, a]: its shape and a function from    *)
(* the 0-based index pairs to the entries.  A Python list is a sequence;   *)
(* the element at Python index i is s[i+1].  Coordinates are drawn from    *)
(* the corners of a 3-4-5 triangle so that every distance is an integer    *)
(* and the float arithmetic of the source is exact.                        *)
(***************************************************************************)
EXTENDS Integers, Sequences, FiniteSets, TLC

VARIABLES nodes, power_mat, base_x, base_y, alpha, beta_1, beta_2,
          call, result, hist

vars == <<nodes, power_mat, base_x, base_y, alpha, beta_1, beta_2,
          call, result, hist>>

\* Largest node list add_sensor is still called on.
MaxNodes == 3
\* Largest node list handed to the constructor.
MaxInit == 3

\* Input domains.
Points == {<<0, 0>>, <<3, 0>>, <<3, 4>>}
Rates == {1}
Alphas == {1, 2}
Beta1s == {0, 1}
Beta2s == {1, 2}

\* Node.__init__: x = pos[0], y = pos[1], r = data_rate.
Node(pos, data_rate) == [x |-> pos[1], y |-> pos[2], r |-> data_rate]

NodeSet == {Node(p, d) : p \in Points, d \in Rates}

NoNode == [x |-> 0, y |-> 0, r |-> 0]

\* ------------------------------------------------------------------------
\* Arithmetic of the coefficient formula.

\* np.sqrt on the perfect squares the input domains produce.
Sqrt(n) == CHOOSE s \in 0..n : s * s = n

RECURSIVE Pow(_, _)
Pow(b, e) == IF e = 0 THEN 1 ELSE b * Pow(b, e - 1)

Dist(x1, y1, x2, y2) == Sqrt((x1 - x2) * (x1 - x2) + (y1 - y2) * (y1 - y2))

Coeff(x1, y1, x2, y2) == beta_1 + beta_2 * Pow(Dist(x1, y1, x2, y2), alpha)

\* ------------------------------------------------------------------------
\* numpy arrays.

Idx(m) == (0..(m.nr - 1)) \X (0..(m.nc - 1))

np_zeros(r, c) ==
  [nr |-> r, nc |-> c, a |-> [p \in (0..(r - 1)) \X (0..(c - 1)) |-> 0]]

\* np.column_stack((m, v)) for a 1-D v: v becomes a column of Len(v) rows.
column_stack_ok(m, v) == m.nr = Len(v)

column_stack(m, v) ==
  [nr |-> m.nr, nc |-> m.nc + 1,
   a |-> [p \in (0..(m.nr - 1)) \X (0..m.nc) |->
            IF p[2] < m.nc THEN m.a[p] ELSE v[p[1] + 1]]]

\* np.row_stack((m, v)) for a 1-D v: v becomes a row of Len(v) columns.
row_stack_ok(m, v) == m.nc = Len(v)

row_stack(m, v) ==
  [nr |-> m.nr + 1, nc |-> m.nc,
   a |-> [p \in (0..m.nr) \X (0..(m.nc - 1)) |->
            IF p[1] < m.nr THEN m.a[p] ELSE v[p[2] + 1]]]

\* Index check shared by `del lst[idx]` and np.delete: -n <= idx < n.
index_ok(idx, n) == -n <= idx /\ idx < n

\* Negative indices count from the end.
norm_index(idx, n) == IF idx < 0 THEN idx + n ELSE idx

axis_len(m, axis) == IF axis = 0 THEN m.nr ELSE m.nc

Shift(i, k) == IF i >= k THEN i + 1 ELSE i

\* np.delete(m, idx, axis) for an integer idx within bounds.
np_delete(m, idx, axis) ==
  LET k == norm_index(idx, axis_len(m, axis))
      r == IF axis = 0 THEN m.nr - 1 ELSE m.nr
      c == IF axis = 0 THEN m.nc ELSE m.nc - 1
  IN [nr |-> r, nc |-> c,
      a |-> [p \in (0..(r - 1)) \X (0..(c - 1)) |->
               IF axis = 0 THEN m.a[<<Shift(p[1], k), p[2]>>]
                           ELSE m.a[<<p[1], Shift(p[2], k)>>]]]

\* Variant of list_del that drops the last element whatever idx is.
list_del_last(lst, idx) == [i \in 1..(Len(lst) - 1) |-> lst[i]]

\* del lst[idx] for an idx within bounds.
list_del(lst, idx) ==
  LET k == norm_index(idx, Len(lst))
  IN [i \in 1..(Len(lst) - 1) |-> IF i - 1 >= k THEN lst[i + 1] ELSE lst[i]]

\* ------------------------------------------------------------------------
\* The three operations, as functions of the current state.  Each returns
\* the fields it leaves behind and how the call ended ("ok" or the name of
\* the exception that propagated).

\* x_data / y_data of build_power_matrix: base first, then each node.
x_data(ns) == <<base_x>> \o [i \in 1..Len(ns) |-> ns[i].x]

y_data(ns) == <<base_y>> \o [i \in 1..Len(ns) |-> ns[i].y]

\* The loop of build_power_matrix from the pair (i, j) on, pairs in the
\* order of combinations(range(n), 2).  A write outside the array stops
\* the loop with IndexError and keeps the writes already made.
RECURSIVE build_from(_, _, _, _, _)
build_from(m, xs, ys, i, j) ==
  IF i >= Len(xs) - 1 THEN [power_mat |-> m, result |-> "ok"]
  ELSE IF j >= Len(xs) THEN build_from(m, xs, ys, i + 1, i + 2)
  ELSE
    LET coeff == Coeff(xs[i + 1], ys[i + 1], xs[j + 1], ys[j + 1])
        m1 == [m EXCEPT !.a[<<i, j>>] = coeff]
        m2 == [m1 EXCEPT !.a[<<j, i>>] = coeff]
    IN IF ~(i < m.nr /\ j < m.nc) THEN [power_mat |-> m, result |-> "IndexError"]
       ELSE IF ~(j < m.nr /\ i < m.nc) THEN [power_mat |-> m1, result |-> "IndexError"]
       ELSE build_from(m2, xs, ys, i, j + 1)

build_power_matrix(ns, m) == build_from(m, x_data(ns), y_data(ns), 0, 1)

\* WSN.__init__: zeros of dimension len(nodes)+1, then the full build.
init_power_mat(ns) ==
  build_power_matrix(ns, np_zeros(Len(ns) + 1, Len(ns) + 1)).power_mat

\* coefflist of add_sensor: one coefficient per node already in the list.
coefflist(node) ==
  [i \in 1..Len(nodes) |-> Coeff(nodes[i].x, nodes[i].y, node.x, node.y)]

\* Variant of add_sensor whose new row carries the 0 in front.
add_sensor_zero_first(node) ==
  LET cl == coefflist(node)
      ns == Append(nodes, node)
      m1 == column_stack(power_mat, cl)
  IN IF ~column_stack_ok(power_mat, cl)
       THEN [nodes |-> ns, power_mat |-> power_mat, result |-> "ValueError"]
     ELSE IF ~row_stack_ok(m1, <<0>> \o cl)
       THEN [nodes |-> ns, power_mat |-> m1, result |-> "ValueError"]
     ELSE [nodes |-> ns, power_mat |-> row_stack(m1, <<0>> \o cl), result |-> "ok"]

add_sensor(node) ==
  LET cl == coefflist(node)
      ns == Append(nodes, node)
      m1 == column_stack(power_mat, cl)
  IN IF ~column_stack_ok(power_mat, cl)
       THEN [nodes |-> ns, power_mat |-> power_mat, result |-> "ValueError"]
     ELSE IF ~row_stack_ok(m1, cl \o <<0>>)
       THEN [nodes |-> ns, power_mat |-> m1, result |-> "ValueError"]
     ELSE [nodes |-> ns, power_mat |-> row_stack(m1, cl \o <<0>>), result |-> "ok"]

\* Variant of remove_sensor that deletes column idx+1 instead of column idx.
remove_sensor_col_plus_one(idx) ==
  LET ns == list_del(nodes, idx)
      m1 == np_delete(power_mat, idx, 0)
  IN IF ~index_ok(idx, Len(nodes))
       THEN [nodes |-> nodes, power_mat |-> power_mat, result |-> "IndexError"]
     ELSE IF ~index_ok(idx, power_mat.nr)
       THEN [nodes |-> ns, power_mat |-> power_mat, result |-> "IndexError"]
     ELSE IF ~index_ok(idx + 1, m1.nc)
       THEN [nodes |-> ns, power_mat |-> m1, result |-> "IndexError"]
     ELSE [nodes |-> ns, power_mat |-> np_delete(m1, idx + 1, 1), result |-> "ok"]

\* Variant of remove_sensor that deletes row and column idx+1.
remove_sensor_plus_one(idx) ==
  LET ns == list_del(nodes, idx)
      m1 == np_delete(power_mat, idx + 1, 0)
  IN IF ~index_ok(idx, Len(nodes))
       THEN [nodes |-> nodes, power_mat |-> power_mat, result |-> "IndexError"]
     ELSE IF ~index_ok(idx + 1, power_mat.nr)
       THEN [nodes |-> ns, power_mat |-> power_mat, result |-> "IndexError"]
     ELSE IF ~index_ok(idx + 1, m1.nc)
       THEN [nodes |-> ns, power_mat |-> m1, result |-> "IndexError"]
     ELSE [nodes |-> ns, power_mat |-> np_delete(m1, idx + 1, 1), result |-> "ok"]

\* Variant of remove_sensor that shrinks the matrix before the node list.
remove_sensor_matrix_first(idx) ==
  LET ns == list_del(nodes, idx)
      m1 == np_delete(power_mat, idx, 0)
      m2 == np_delete(m1, idx, 1)
  IN IF ~index_ok(idx, power_mat.nr)
       THEN [nodes |-> nodes, power_mat |-> power_mat, result |-> "IndexError"]
     ELSE IF ~index_ok(idx, m1.nc)
       THEN [nodes |-> nodes, power_mat |-> m1, result |-> "IndexError"]
     ELSE IF ~index_ok(idx, Len(nodes))
       THEN [nodes |-> nodes, power_mat |-> m2, result |-> "IndexError"]
     ELSE [nodes |-> ns, power_mat |-> m2, result |-> "ok"]

remove_sensor(idx) ==
  LET ns == list_del(nodes, idx)
      m1 == np_delete(power_mat, idx, 0)
  IN IF ~index_ok(idx, Len(nodes))
       THEN [nodes |-> nodes, power_mat |-> power_mat, result |-> "IndexError"]
     ELSE IF ~index_ok(idx, power_mat.nr)
       THEN [nodes |-> ns, power_mat |-> power_mat, result |-> "IndexError"]
     ELSE IF ~index_ok(idx, m1.nc)
       THEN [nodes |-> ns, power_mat |-> m1, result |-> "IndexError"]
     ELSE [nodes |-> ns, power_mat |-> np_delete(m1, idx, 1), result |-> "ok"]

\* ------------------------------------------------------------------------
\* State machine.  call and result record the last call and how it ended;
\* hist remembers the state before the last add_sensor, and whether the
\* call after it removed the sensor just added.

SeqsUpTo(S, n) == UNION {[1..k -> S] : k \in 0..n}

NoHist == [tag |-> "none", nodes |-> <<>>, power_mat |-> np_zeros(0, 0)]

Init ==
  /\ nodes \in SeqsUpTo(NodeSet, MaxInit)
  /\ \E b \in Points : base_x = b[1] /\ base_y = b[2]
  /\ alpha \in Alphas
  /\ beta_1 \in Beta1s
  /\ beta_2 \in Beta2s
  /\ power_mat = init_power_mat(nodes)
  /\ call = [op |-> "__init__", idx |-> 0, node |-> NoNode]
  /\ result = "ok"
  /\ hist = NoHist

Params == <<base_x, base_y, alpha, beta_1, beta_2>>

BuildPowerMatrix ==
  LET r == build_power_matrix(nodes, power_mat)
  IN /\ power_mat' = r.power_mat
     /\ result' = r.result
     /\ call' = [op |-> "build_power_matrix", idx |-> 0, node |-> NoNode]
     /\ hist' = NoHist
     /\ UNCHANGED <<nodes, Params>>

AddSensor(node) ==
  LET r == add_sensor(node)
  IN /\ Len(nodes) < MaxNodes
     /\ nodes' = r.nodes
     /\ power_mat' = r.power_mat
     /\ result' = r.result
     /\ call' = [op |-> "add_sensor", idx |-> 0, node |-> node]
     /\ hist' = [tag |-> "added", nodes |-> nodes, power_mat |-> power_mat]
     /\ UNCHANGED Params

RemoveSensor(idx) ==
  LET r == remove_sensor(idx)
  IN /\ nodes' = r.nodes
     /\ power_mat' = r.power_mat
     /\ result' = r.result
     /\ call' = [op |-> "remove_sensor", idx |-> idx, node |-> NoNode]
     /\ hist' = IF hist.tag = "added" /\ idx = Len(hist.nodes)
                  THEN [hist EXCEPT !.tag = "roundtrip"]
                  ELSE NoHist
     /\ UNCHANGED Params

Next ==
  \/ BuildPowerMatrix
  \/ \E node \in NodeSet : AddSensor(node)
  \/ \E idx \in (-(Len(nodes) + 1))..(Len(nodes) + 1) : RemoveSensor(idx)

Spec == Init /\ [][Next]_vars

\* ------------------------------------------------------------------------
\* Properties.

Dim == power_mat.nr

\* point_0 is the base location, point_k (k >= 1) the position of nodes[k-1].
PointX(k) == IF k = 0 THEN base_x ELSE nodes[k].x

PointY(k) == IF k = 0 THEN base_y ELSE nodes[k].y

PointCoeff(i, j) == Coeff(PointX(i), PointY(i), PointX(j), PointY(j))

IsCall(c, op) == c.op = op

\* C1: power_mat is always square with dimension len(nodes)+1.
DimensionInv ==
  power_mat.nr = Len(nodes) + 1 /\ power_mat.nc = Len(nodes) + 1

\* C2: every off-diagonal entry power_mat[i][j] is the coefficient of
\* point_i and point_j.
ValueInv ==
  \A p \in Idx(power_mat) :
    p[1] # p[2] =>
      /\ p[1] <= Len(nodes)
      /\ p[2] <= Len(nodes)
      /\ power_mat.a[p] = PointCoeff(p[1], p[2])

\* C3: power_mat is symmetric, power_mat[i][j] = power_mat[j][i] for all
\* i, j.
SymmetryInv ==
  \A p \in Idx(power_mat) :
    /\ <<p[2], p[1]>> \in Idx(power_mat)
    /\ power_mat.a[p] = power_mat.a[<<p[2], p[1]>>]

SymmetryWitness ==
  /\ IsCall(call, "add_sensor")
  /\ result = "ok"
  /\ Dim >= 3
  /\ \E p \in Idx(power_mat) : power_mat.a[p] # 0

\* C4: the diagonal of power_mat is zero, power_mat[i][i] = 0 for all i.
ZeroDiagonalInv ==
  \A p \in Idx(power_mat) : p[1] = p[2] => power_mat.a[p] = 0

ZeroDiagonalWitness ==
  /\ IsCall(call, "remove_sensor")
  /\ result = "ok"
  /\ Dim >= 2
  /\ \E p \in Idx(power_mat) : power_mat.a[p] # 0

Untouched == nodes' = nodes /\ power_mat' = power_mat

\* C5 as stated: remove_sensor(idx) with idx >= len(nodes) or idx < 0
\* raises IndexError and leaves nodes and power_mat as they were.
RemoveRejectsNegativeAndLarge ==
  [][(IsCall(call', "remove_sensor")
        /\ (call'.idx >= Len(nodes) \/ call'.idx < 0))
       => (result' = "IndexError" /\ Untouched)]_vars

\* C5 amended: remove_sensor(idx) with idx >= len(nodes) or
\* idx < -len(nodes) raises IndexError and leaves nodes and power_mat as
\* they were.
RemoveRejectsOutOfRange ==
  [][(IsCall(call', "remove_sensor")
        /\ (call'.idx >= Len(nodes) \/ call'.idx < -Len(nodes)))
       => (result' = "IndexError" /\ Untouched)]_vars

RemoveRejectsWitness ==
  /\ IsCall(call, "remove_sensor")
  /\ result = "IndexError"
  /\ call.idx < -Len(nodes)
  /\ Len(nodes) >= 1
  /\ DimensionInv

\* C6: add_sensor(node) completes, and the new last row and column hold,
\* at matrix index i+1 of every pre-existing node i, the coefficient of
\* node and nodes[i], with 0 as the new node's own entry.
AddSensorCorrect ==
  IsCall(call, "add_sensor") =>
    /\ result = "ok"
    /\ power_mat.nr = power_mat.nc
    /\ power_mat.a[<<Dim - 1, Dim - 1>>] = 0
    /\ \A i \in 0..(Len(nodes) - 2) :
         LET c == Coeff(call.node.x, call.node.y, nodes[i + 1].x, nodes[i + 1].y)
         IN /\ i + 1 < Dim - 1
            /\ power_mat.a[<<Dim - 1, i + 1>>] = c
            /\ power_mat.a[<<i + 1, Dim - 1>>] = c

\* C7: add_sensor(node) followed by remove_sensor(n), n the number of
\* nodes before the add, restores the node sequence and power_mat.
RoundTripRestores ==
  hist.tag = "roundtrip" =>
    /\ nodes = hist.nodes
    /\ power_mat.nr = hist.power_mat.nr
    /\ power_mat.nc = hist.power_mat.nc
    /\ power_mat = hist.power_mat

\* C8: build_power_matrix completes in every reachable state and leaves a
\* matrix of dimension len(nodes)+1 that is symmetric, has a zero diagonal
\* and holds the coefficient of point_i and point_j at every i # j.
BuildCorrect ==
  IsCall(call, "build_power_matrix") =>
    /\ result = "ok"
    /\ power_mat.nr = Len(nodes) + 1
    /\ power_mat.nc = Len(nodes) + 1
    /\ \A i, j \in 0..Len(nodes) :
         /\ power_mat.a[<<i, j>>] = power_mat.a[<<j, i>>]
         /\ i = j => power_mat.a[<<i, j>>] = 0
         /\ i # j => power_mat.a[<<i, j>>] = PointCoeff(i, j)

\* Index before the deletion of the element found at index i after it.
Old(i, k) == IF i < k THEN i ELSE i + 1

\* nodes' is nodes without the element at index k; power_mat' is power_mat
\* without row k and column k, the rest in order.
NodeDeleted(k) ==
  /\ Len(nodes') = Len(nodes) - 1
  /\ \A i \in 0..(Len(nodes) - 2) : nodes'[i + 1] = nodes[Old(i, k) + 1]

RowColDeleted(k) ==
  /\ power_mat'.nr = power_mat.nr - 1
  /\ power_mat'.nc = power_mat.nc - 1
  /\ \A i \in 0..(power_mat.nr - 2), j \in 0..(power_mat.nc - 2) :
       power_mat'.a[<<i, j>>] = power_mat.a[<<Old(i, k), Old(j, k)>>]

\* C9: remove_sensor(idx) with 0 <= idx < len(nodes) deletes nodes[idx]
\* and matrix row idx and column idx (not idx+1); all other rows and
\* columns keep their values and order, and the dimension drops by one.
RemoveDeletesRowIdx ==
  [][(IsCall(call', "remove_sensor")
        /\ 0 <= call'.idx /\ call'.idx < Len(nodes))
       => /\ result' = "ok"
          /\ NodeDeleted(call'.idx)
          /\ RowColDeleted(call'.idx)]_vars

\* remove_sensor(0) on a correct matrix took the base station's row away.
RemoveDeletesRowIdxWitness ==
  /\ IsCall(call, "remove_sensor")
  /\ call.idx = 0
  /\ result = "ok"
  /\ DimensionInv
  /\ Len(nodes) >= 1
  /\ ~ValueInv

\* The matrix has an entry for every pair of points, and each off-diagonal
\* entry is the coefficient of its two points.
FullValueInv == DimensionInv /\ ValueInv

\* C10: remove_sensor(idx) with -len(nodes) <= idx <= -1 does not fail; it
\* deletes the node counted from the end and the matrix row and column
\* counted from the end; from a state where the matrix holds the
\* coefficient of point_i and point_j for all points i # j, these are that
\* node's own row and column and the state after the call is again such a
\* state.
NegativeRemoveKeepsValues ==
  [][(IsCall(call', "remove_sensor")
        /\ -Len(nodes) <= call'.idx /\ call'.idx <= -1)
       => /\ result' = "ok"
          /\ NodeDeleted(Len(nodes) + call'.idx)
          /\ RowColDeleted(power_mat.nr + call'.idx)
          /\ FullValueInv =>
               /\ power_mat.nr + call'.idx = (Len(nodes) + call'.idx) + 1
               /\ FullValueInv']_vars

NegativeRemoveWitness ==
  /\ IsCall(call, "remove_sensor")
  /\ call.idx = -2
  /\ result = "ok"
  /\ Len(nodes) >= 2
  /\ FullValueInv

====
